---- MODULE Spec2Model ----
(***************************************************************************)
(* Model of the MoonGate MCP server's session manager                      *)
(* (src/session/manager.ts, here src/unnamed/part_001).                    *)
(*                                                                         *)
(* The program runs on one JavaScript event loop.  A step of the model is  *)
(* the synchronous run of code between two suspension points (an upstream  *)
(* HTTP call, a file-system call, the wait for a callback request or for   *)
(* the timer).  An `await` on a promise that is already settled resumes in *)
(* the same microtask drain, so it is not a suspension point.              *)
(***************************************************************************)
EXTENDS Integers, Sequences, FiniteSets, TLC

\* ------------------------------------------------------------------ bounds
\* Number of clock advances in a behaviour.
MaxTicks == 2
\* Number of getToken() calls in a behaviour; they may overlap.
MaxCalls == 2
\* Number of callback requests the listener receives in one OAuth flow.
MaxCallbacks == 1
\* The same in the specification of the OAuth flow alone (SpecFlow).
MaxFlowCallbacks == 2

\* --------------------------------------------------------- program constants
\* Times are in seconds; the code's are in milliseconds (TLC's integers are
\* 32-bit, and 7 days of milliseconds added a few times over do not fit).
\* TOKEN_REFRESH_THRESHOLD = 60 * 60 * 1000 ms
TOKEN_REFRESH_THRESHOLD == 60 * 60
\* 7 * 24 * 60 * 60 * 1000 ms, in initialize, refreshTokenIfNeeded, startOAuthFlow
SEVEN_DAYS == 7 * 24 * 60 * 60
\* setTimeout(..., 5 * 60 * 1000) ms
OAUTH_TIMEOUT == 5 * 60

\* The clock (Date.now()) when the process starts.
Epoch == 2 * SEVEN_DAYS
\* The amounts by which the clock advances between two steps.
Deltas == {OAUTH_TIMEOUT, SEVEN_DAYS - TOKEN_REFRESH_THRESHOLD + 1}

\* ------------------------------------------------------------- JS values
JsNull == "<null>"
JsUndefined == "<undefined>"
\* JavaScript truthiness of a string-or-absent value (if (x), !x, x || '').
Truthy(x) == x \notin {JsNull, JsUndefined, ""}
OrEmpty(x) == IF Truthy(x) THEN x ELSE ""

\* this.session = null
Null == [isNull |-> TRUE]

SessionData(token, publicKey, userId, authProvider, createdAt, expiresAt) ==
    [token |-> token, publicKey |-> publicKey, userId |-> userId,
     authProvider |-> authProvider, createdAt |-> createdAt, expiresAt |-> expiresAt]

\* ------------------------------------------------- the session file's content
Absent == [kind |-> "absent", body |-> <<>>]
Corrupt == [kind |-> "corrupt", body |-> <<>>]

\* JSON.stringify(this.session, null, 2): the object's own properties in
\* insertion order; JSON.stringify(null) is the text "null".
Stringify(s) ==
    IF s = Null THEN [kind |-> "null", body |-> <<>>]
    ELSE [kind |-> "object",
          body |-> << <<"token", s.token>>, <<"publicKey", s.publicKey>>,
                      <<"userId", s.userId>>, <<"authProvider", s.authProvider>>,
                      <<"createdAt", s.createdAt>>, <<"expiresAt", s.expiresAt>> >>]

Member(body, key) == body[CHOOSE i \in DOMAIN body : body[i][1] = key][2]

\* JSON.parse(data) of a text that parses ("null" or an object).
Parse(f) ==
    IF f.kind = "null" THEN Null
    ELSE SessionData(Member(f.body, "token"), Member(f.body, "publicKey"),
                     Member(f.body, "userId"), Member(f.body, "authProvider"),
                     Member(f.body, "createdAt"), Member(f.body, "expiresAt"))

\* JSON.parse throws on this content.
ParseThrows(f) == f.kind = "corrupt"

\* ------------------------------------------------------------ environment
\* process.env.MOONGATE_TOKEN
EnvTokens == {JsUndefined, "tM"}
\* Bodies of a successful GET /api2/auth: the upstream mints a token of its
\* own per call (tokens != the bearer it was asked with), with or without
\* the wallet address and the user id.
AuthResponse(token, publicKey, userId) ==
    [token |-> token, publicKey |-> publicKey, userId |-> userId]
AuthToken(p) == <<"tA", "tB", "tE", "tF", "tG">>[p + 1]
AuthResponses(p) ==
    {AuthResponse(AuthToken(p), "pkA", "uA"),
     AuthResponse(AuthToken(p), JsUndefined, JsUndefined)}
\* Bodies of a successful GET /api2/getwalletaddress.
WalletResponses == {"", "pkW"}
\* Query parameters of a request to /callback (searchParams.get gives null
\* for a parameter that is not there).
CallbackRequest(token, publicKey, userId, provider) ==
    [token |-> token, publicKey |-> publicKey, userId |-> userId, provider |-> provider]
CallbackRequests ==
    {CallbackRequest("tC", "pkC", "uC", "google"), CallbackRequest("tD", "pkD", "uD", "github"),
     CallbackRequest("tC", "pkC", "uC", JsNull),
     CallbackRequest(JsNull, "pkC", "uC", "google"), CallbackRequest("tC", "", "uC", "google"),
     CallbackRequest("tC", "pkC", JsNull, "apple")}

\* Session files a previous run may have left: its expiresAt.
InitialExpiries ==
    {Epoch - 1, Epoch + TOKEN_REFRESH_THRESHOLD - 1, Epoch + TOKEN_REFRESH_THRESHOLD + 1}
InitialFiles ==
    {Absent, Corrupt}
    \cup {Stringify(SessionData("tP", "pkP", "uP", "google", e - SEVEN_DAYS, e)) :
            e \in InitialExpiries}

Callers == 1 .. MaxCalls
Procs == {0} \cup Callers      \* 0 is initialize()
Handlers ==
    1 .. (IF MaxCallbacks > MaxFlowCallbacks THEN MaxCallbacks ELSE MaxFlowCallbacks)

NoResult == [kind |-> "none", val |-> ""]
Ok(v) == [kind |-> "ok", val |-> v]
Err(e) == [kind |-> "err", val |-> e]

VARIABLES
    now,          \* Date.now()
    ticks,        \* clock advances so far
    manualToken,  \* process.env.MOONGATE_TOKEN
    faults,       \* whether file-system calls may fail in this run
    tokenless,    \* whether a 200 answer of /api2/auth may lack the token
    session,      \* SessionManager.session
    file,         \* content of SESSION_FILE
    dir,          \* whether SESSION_DIR exists
    pc,           \* position of initialize() (0) and of each getToken() call
    held,         \* per process: the text its pending writeFile writes
    res,          \* per process: how its call ended
    authResp,     \* initialize(): the body /api2/auth answered the manual token with
    server,       \* the OAuth listener: "none", "listening", "closed"
    closes,       \* number of server.close() calls
    promise,      \* startOAuthFlow's promise: "none", "pending", "resolved", "rejected"
    deadline,     \* when the 5-minute timer is due (0: not armed)
    timerFired,   \* whether the timer's callback has run
    hpc,          \* position of each callback request's handler
    hdata,        \* per handler: the text its pending writeFile writes
    hreq,         \* per handler: the request's parameters
    nReq,         \* callback requests received
    transport,    \* MoonGateMCPServer: "none", "connected", "exited"
    tool,         \* per call: the tool name of the tools/call request
    tpc,          \* per call: position of the tool's handler
    reply,        \* per call: what the CallTool request handler returned or threw
    tokenData,    \* get_token_info: the body /tokens/token-info answered with
    assessment,   \* get_token_info: the riskAssessment of the result
    sargs,        \* send_token: the arguments of the call
    portfolio,    \* send_token: the tokens /api2/wallet-portfolio answers with
    spc,          \* send_token: position of the handler
    sent,         \* send_token: the /sending/sendtoken requests issued
    sres,         \* send_token: how the handler ended
    \* History, read by the properties only:
    obs,          \* per process: the /api2/auth calls of its call (nAuth), how the
                  \* upstream answered (upstream), Date.now() when a refresh was
                  \* applied (tAuth), whether no other getToken() overlapped it (alone)
    boot,         \* initialize(): the acquisition path, the text read from the
                  \* session file and Date.now() when it was read
    fsLog         \* file-system calls made, as <<caller, call>>

vars == <<now, ticks, manualToken, faults, tokenless, session, file, dir, pc, held, res, authResp,
          server, closes, promise, deadline, timerFired, hpc, hdata, hreq, nReq, obs,
          boot, fsLog, transport, tool, tpc, reply, tokenData, assessment, sargs,
          portfolio, spc, sent, sres>>

fsVars == <<file, dir, fsLog>>
oauthVars == <<server, closes, promise, deadline, timerFired, hpc, hdata, hreq, nReq>>
envVars == <<manualToken, faults, tokenless>>
toolVars == <<tokenData, assessment, sargs, portfolio, spc, sent, sres>>
srvVars == <<transport, tool, tpc, reply, toolVars>>
clock == <<now, ticks>>

NoAuthResponse == AuthResponse("", "", "")
\* Bodies of a successful GET /api2/auth in this run: response.data.token
\* is used as it comes, so a body without it is one of them.
AuthBodies(p) ==
    AuthResponses(p)
    \cup (IF tokenless THEN {AuthResponse(JsUndefined, "pkA", "uA")} ELSE {})
NoReq == CallbackRequest(JsNull, JsNull, JsNull, JsNull)
\* A field of a JSON body or of the arguments that may be undefined.
None == <<>>
Some(v) == <<v>>
NoTokenInfo == [liquidity |-> None]
NoAssessment == [n |-> 0, riskIndicators |-> <<>>, overallRisk |-> "", recommendation |-> ""]
NoArgs == [amount |-> 0]
NoPortfolio == [kind |-> "none", tokens |-> <<>>]
NoReply == [kind |-> "none", tool |-> "", error |-> ""]
NoObs == [nAuth |-> 0, tAuth |-> 0, upstream |-> "none", alone |-> TRUE]

\* No get_token_info and no send_token call is made.
ToolsIdle ==
    /\ tokenData = NoTokenInfo
    /\ assessment = NoAssessment
    /\ sargs = NoArgs
    /\ portfolio = NoPortfolio
    /\ spc = "idle"
    /\ sent = <<>>
    /\ sres = NoResult

InitWith(files) ==
    /\ now = Epoch
    /\ ticks = 0
    /\ manualToken \in EnvTokens
    /\ session = Null
    /\ file \in files
    /\ dir \in (IF file = Absent THEN BOOLEAN ELSE {TRUE})
    /\ pc = [p \in Procs |-> IF p = 0 THEN "start" ELSE "idle"]
    /\ held = [p \in Procs |-> Absent]
    /\ res = [p \in Procs |-> NoResult]
    /\ authResp = NoAuthResponse
    /\ server = "none"
    /\ closes = 0
    /\ promise = "none"
    /\ deadline = 0
    /\ timerFired = FALSE
    /\ hpc = [h \in Handlers |-> "unused"]
    /\ hdata = [h \in Handlers |-> Absent]
    /\ hreq = [h \in Handlers |-> NoReq]
    /\ nReq = 0
    /\ obs = [p \in Procs |-> NoObs]
    /\ boot = [path |-> "none", loaded |-> Absent, at |-> 0]
    /\ fsLog = {}
    /\ transport = "none"
    /\ tool = [c \in Callers |-> "none"]
    /\ tpc = [c \in Callers |-> "idle"]
    /\ reply = [c \in Callers |-> NoReply]
    /\ ToolsIdle

InitCommon == InitWith(InitialFiles) /\ tokenless = FALSE

\* The file system works: every mkdir, readFile of an existing file and
\* writeFile succeeds.
Init == InitCommon /\ faults = FALSE

ProcName(p) == IF p = 0 THEN "initialize" ELSE "getToken"

\* Outcomes of a file-system call that can fail for a reason of the environment.
FsOutcomes == IF faults THEN {"ok", "fail"} ELSE {"ok"}

\* Time passes.  The number of advances is bounded, but while the OAuth timer
\* is armed and not yet due time still passes.
Tick ==
    /\ \/ ticks < MaxTicks
       \/ deadline > 0 /\ ~timerFired /\ now < deadline
    /\ \E d \in Deltas : now' = now + d
    /\ ticks' = ticks + 1
    /\ UNCHANGED <<envVars, srvVars, session, fsVars, pc, held, res, authResp, oauthVars, obs, boot>>

\* ------------------------------------------------------------ pure helpers
\* Mutant: the comparison the other way round.
isSessionValid_Flipped(s, t) == s # Null /\ t > s.expiresAt

\* isSessionValid(): if (!this.session) return false; Date.now() < expiresAt
isSessionValid(s, t) == s # Null /\ t < s.expiresAt

\* Mutant: the comparison the other way round.
NeedsRefresh_Flipped(s, t) == s.expiresAt - t > TOKEN_REFRESH_THRESHOLD

\* refreshTokenIfNeeded: timeUntilExpiry < TOKEN_REFRESH_THRESHOLD
NeedsRefresh(s, t) == s.expiresAt - t < TOKEN_REFRESH_THRESHOLD

\* Mutant: the refresh also restarts createdAt.
Refreshed_Recreated(s, token, t) ==
    [s EXCEPT !.token = token, !.createdAt = t, !.expiresAt = t + SEVEN_DAYS]

\* Mutant: the expiry is extended from the old expiry, not from now.
Refreshed_FromOldExpiry(s, token, t) ==
    [s EXCEPT !.token = token, !.expiresAt = s.expiresAt + SEVEN_DAYS]

\* refreshTokenIfNeeded: the two assignments after a successful /api2/auth
Refreshed(s, token, t) == [s EXCEPT !.token = token, !.expiresAt = t + SEVEN_DAYS]

\* initialize(): the session built from a validated MOONGATE_TOKEN
ManualSession(resp, publicKey, t) ==
    SessionData(resp.token, OrEmpty(publicKey), OrEmpty(resp.userId), "manual",
                t, t + SEVEN_DAYS)

\* Mutant: the session of a callback lives one hour.
CallbackSession_OneHour(q, t) ==
    SessionData(q.token, q.publicKey, q.userId, q.provider, t, t + TOKEN_REFRESH_THRESHOLD)

\* Mutant: the provider parameter is not read.
CallbackSession_GoogleOnly(q, t) ==
    SessionData(q.token, q.publicKey, q.userId, "google", t, t + SEVEN_DAYS)

\* startOAuthFlow: the session built from a callback request
CallbackSession(q, t) ==
    SessionData(q.token, q.publicKey, q.userId, q.provider, t, t + SEVEN_DAYS)

\* Mutant: only the token is required.
MissingParameters_TokenOnly(q) == ~Truthy(q.token)

\* startOAuthFlow: if (!token || !publicKey || !userId)
MissingParameters(q) == ~Truthy(q.token) \/ ~Truthy(q.publicKey) \/ ~Truthy(q.userId)

\* getSession(): throws when there is no session
getSession == IF session = Null THEN Err("NotAuthenticated") ELSE Ok(session.token)

(***************************************************************************)
(* Errors, by the name the specification gives them:                       *)
(*   InvalidManualToken       'Invalid MOONGATE_TOKEN'                     *)
(*   OAuthCallbackIncomplete  'OAuth callback missing parameters'          *)
(*   OAuthTimeout             'OAuth flow timed out after 5 minutes'       *)
(*   SessionExpired           'Session expired. Please authenticate again.'*)
(*   NotAuthenticated         'Not authenticated'                          *)
(*   TypeError                a property read or written on null           *)
(***************************************************************************)

\* ------------------------------------------------------------- history
InFlight(p) == pc[p] \in {"auth", "mkdir", "write", "unlink"}

\* Process p starts a call that issues n /api2/auth calls at once; the
\* getToken() calls in flight are no longer alone.
Started(p, n) ==
    [q \in Procs |->
       IF q = p
       THEN [nAuth |-> n, tAuth |-> 0, upstream |-> "none",
             alone |-> \A d \in Callers \ {p} : ~InFlight(d)]
       ELSE IF q \in Callers /\ InFlight(q) THEN [obs[q] EXCEPT !.alone = FALSE]
       ELSE obs[q]]

Answered(p, how) == [obs EXCEPT ![p].upstream = how]

\* -------------------------------------------------------- startOAuthFlow
\* The synchronous body of the promise executor: createServer, listen,
\* setTimeout.  initialize() then waits for the promise.
startOAuthFlow ==
    /\ server' = "listening"
    /\ promise' = "pending"
    /\ deadline' = now + OAUTH_TIMEOUT
    /\ pc' = [pc EXCEPT ![0] = "oauth"]
    /\ UNCHANGED <<res, closes, timerFired, hpc, hdata, hreq, nReq>>

\* resolve() / reject(e): only the first settles the promise, and
\* initialize() completes with it.
Settle(r) ==
    IF promise = "pending"
    THEN /\ promise' = (IF r.kind = "ok" THEN "resolved" ELSE "rejected")
         /\ pc' = [pc EXCEPT ![0] = "done"]
         /\ res' = [res EXCEPT ![0] = r]
    ELSE UNCHANGED <<promise, pc, res>>

\* --------------------------------------------------- refreshTokenIfNeeded
\* Process p stays inside its call, at suspension point `label`.
Continue(p, label) ==
    /\ pc' = [pc EXCEPT ![p] = label]
    /\ UNCHANGED <<res, oauthVars>>

\* Mutant: initialize() lets the error of the refresh escape.
RefreshEnds_Propagates(p, r) ==
    /\ pc' = [pc EXCEPT ![p] = "done"]
    /\ res' = [res EXCEPT ![p] =
                 IF r.kind = "err" THEN r
                 ELSE IF session' = Null THEN Err("TypeError")
                 ELSE Ok(session'.token)]
    /\ UNCHANGED oauthVars

\* refreshTokenIfNeeded() of process p has returned (r.kind = "ok") or thrown.
\* getToken(): return this.session.token.  initialize(): the log line reads
\* this.session.publicKey and returns; anything thrown is caught and leads
\* to startOAuthFlow().
RefreshEnds(p, r) ==
    IF p = 0
    THEN IF r.kind = "ok" /\ session' # Null
         THEN /\ pc' = [pc EXCEPT ![0] = "done"]
              /\ res' = [res EXCEPT ![0] = Ok("")]
              /\ UNCHANGED oauthVars
         ELSE startOAuthFlow
    ELSE /\ pc' = [pc EXCEPT ![p] = "done"]
         /\ res' = [res EXCEPT ![p] =
                      IF r.kind = "err" THEN r
                      ELSE IF session' = Null THEN Err("TypeError")
                      ELSE Ok(session'.token)]
         /\ UNCHANGED oauthVars

\* The synchronous start of refreshTokenIfNeeded() by process p, on the
\* session s it finds: nothing to do, or GET /api2/auth is issued.
BeginRefresh(p, s) ==
    /\ session' = s
    /\ held' = [held EXCEPT ![p] = Absent]
    /\ IF s # Null /\ NeedsRefresh(s, now)
       THEN /\ obs' = Started(p, 1)
            /\ Continue(p, "auth")
       ELSE /\ obs' = Started(p, 0)
            /\ RefreshEnds(p, Ok(""))

\* Mutant: the catch block leaves this.session as it is.
CatchRefresh_KeepsSession(p) ==
    /\ UNCHANGED session
    /\ Continue(p, "unlink")

\* The catch block: this.session = null; clearSession() issues unlink.
CatchRefresh(p) ==
    /\ session' = Null
    /\ Continue(p, "unlink")

\* GET /api2/auth of a refresh answers.  A successful answer is applied to
\* this.session (a TypeError when it is null by now, caught like a rejection)
\* and saveSession() starts: ensureSessionDir() issues mkdir.
RefreshAuthResponse(p) ==
    /\ pc[p] = "auth"
    /\ \E ok \in BOOLEAN : \E resp \in AuthBodies(p) :
         IF ok /\ session # Null
         THEN /\ session' = Refreshed(session, resp.token, now)
              /\ obs' = [obs EXCEPT ![p].upstream = "ok", ![p].tAuth = now]
              /\ Continue(p, "mkdir")
         ELSE /\ CatchRefresh(p)
              /\ obs' = Answered(p, IF ok THEN "ok" ELSE "rejected")
    /\ UNCHANGED <<clock, envVars, srvVars, fsVars, held, authResp, boot>>

\* ensureSessionDir(): mkdir -p ends; any error is swallowed.
EnsuredDir(outcome) == IF outcome = "ok" THEN TRUE ELSE dir

\* saveSession() after ensureSessionDir(): writeFile is issued with
\* JSON.stringify(this.session) as the session is now.
SaveMkdirDone(p) ==
    /\ pc[p] = "mkdir"
    /\ \E outcome \in FsOutcomes : dir' = EnsuredDir(outcome)
    /\ fsLog' = fsLog \cup {<<ProcName(p), "mkdir">>}
    /\ held' = [held EXCEPT ![p] = Stringify(session)]
    /\ Continue(p, "write")
    /\ UNCHANGED <<clock, envVars, srvVars, session, file, authResp, obs, boot>>

\* writeFile ends.
SaveWriteDone(p) ==
    /\ pc[p] = "write"
    /\ fsLog' = fsLog \cup {<<ProcName(p), "write">>}
    /\ \E outcome \in FsOutcomes :
         IF outcome = "ok" /\ dir
         THEN /\ file' = held[p]
              /\ UNCHANGED session
              /\ RefreshEnds(p, Ok(""))
         ELSE /\ UNCHANGED file
              /\ CatchRefresh(p)
    /\ UNCHANGED <<clock, envVars, srvVars, dir, held, authResp, obs, boot>>

\* clearSession(): unlink ends (any error of it is ignored); the catch block
\* then throws 'Session expired'.
ClearUnlinkDone(p) ==
    /\ pc[p] = "unlink"
    /\ fsLog' = fsLog \cup {<<ProcName(p), "unlink">>}
    /\ \E outcome \in FsOutcomes : file' = IF outcome = "ok" THEN Absent ELSE file
    /\ UNCHANGED session
    /\ RefreshEnds(p, Err("SessionExpired"))
    /\ UNCHANGED <<clock, envVars, srvVars, dir, held, authResp, obs, boot>>

\* ---------------------------------------------------------------- getToken
\* Mutant: without a session getToken() starts the OAuth flow again.
getToken_Reauthenticates(c) ==
    /\ pc[c] = "idle"
    /\ IF session = Null
       THEN /\ startOAuthFlow
            /\ obs' = Started(c, 0)
            /\ UNCHANGED <<session, held>>
       ELSE BeginRefresh(c, session)
    /\ UNCHANGED <<clock, envVars, fsVars, authResp, boot>>

\* getToken(), called as call number c: its synchronous part.
getToken(c) ==
    /\ pc[c] = "idle"
    /\ IF session = Null
       THEN /\ pc' = [pc EXCEPT ![c] = "done"]
            /\ res' = [res EXCEPT ![c] = Err("NotAuthenticated")]
            /\ obs' = Started(c, 0)
            /\ UNCHANGED <<session, held, oauthVars>>
       ELSE BeginRefresh(c, session)
    /\ UNCHANGED <<clock, envVars, fsVars, authResp, boot>>

\* A client of the SessionManager calls getToken(), once initialize() has
\* completed.  Each call has its own number c, in the order of the calls.
Call(c) ==
    /\ pc[0] = "done"
    /\ c > 1 => pc[c - 1] # "idle"
    /\ getToken(c)
    /\ UNCHANGED srvVars

\* -------------------------------------------------------------- initialize
\* Mutant: the session file is tried before MOONGATE_TOKEN is looked at.
initialize_LoadFirst ==
    /\ pc[0] = "start"
    /\ boot' = [boot EXCEPT !.path = "persisted"]
    /\ pc' = [pc EXCEPT ![0] = "lMkdir"]
    /\ UNCHANGED <<clock, envVars, srvVars, session, fsVars, held, res, authResp, oauthVars, obs>>

\* initialize() starts: with MOONGATE_TOKEN set it issues GET /api2/auth,
\* otherwise ensureSessionDir() issues mkdir.
initialize ==
    /\ pc[0] = "start"
    /\ IF Truthy(manualToken)
       THEN /\ boot' = [boot EXCEPT !.path = "manual"]
            /\ pc' = [pc EXCEPT ![0] = "mAuth"]
            /\ obs' = Started(0, 1)
       ELSE /\ boot' = [boot EXCEPT !.path = "persisted"]
            /\ pc' = [pc EXCEPT ![0] = "lMkdir"]
            /\ UNCHANGED obs
    /\ UNCHANGED <<clock, envVars, srvVars, session, fsVars, held, res, authResp, oauthVars>>

\* Mutant: a failed validation falls through to the session file.
ManualEnds_FallsThrough(r) ==
    IF r.kind = "err"
    THEN pc' = [pc EXCEPT ![0] = "lMkdir"] /\ UNCHANGED res
    ELSE pc' = [pc EXCEPT ![0] = "done"] /\ res' = [res EXCEPT ![0] = r]

\* initialize() ends on the static-token path.
ManualEnds(r) ==
    /\ pc' = [pc EXCEPT ![0] = "done"]
    /\ res' = [res EXCEPT ![0] = r]

\* GET /api2/auth for the manual token answers.
ManualAuthResponse ==
    /\ pc[0] = "mAuth"
    /\ \E ok \in BOOLEAN : \E resp \in AuthBodies(0) :
         IF ~ok
         THEN /\ ManualEnds(Err("InvalidManualToken"))
              /\ obs' = Answered(0, "rejected")
              /\ UNCHANGED <<session, authResp>>
         ELSE IF ~Truthy(resp.publicKey)
         THEN /\ authResp' = resp
              /\ pc' = [pc EXCEPT ![0] = "mWallet"]
              /\ UNCHANGED <<session, res, obs>>
         ELSE /\ session' = ManualSession(resp, resp.publicKey, now)
              /\ authResp' = resp
              /\ obs' = Answered(0, "ok")
              /\ ManualEnds(Ok(""))
    /\ UNCHANGED <<clock, envVars, srvVars, fsVars, held, oauthVars, boot>>

\* GET /api2/getwalletaddress answers.
ManualWalletResponse ==
    /\ pc[0] = "mWallet"
    /\ \E ok \in BOOLEAN : \E publicKey \in WalletResponses :
         IF ok
         THEN /\ session' = ManualSession(authResp, publicKey, now)
              /\ obs' = Answered(0, "ok")
              /\ ManualEnds(Ok(""))
         ELSE /\ ManualEnds(Err("InvalidManualToken"))
              /\ obs' = Answered(0, "rejected")
              /\ UNCHANGED session
    /\ UNCHANGED <<clock, envVars, srvVars, fsVars, held, authResp, oauthVars, boot>>

\* ensureSessionDir() of the load ends; readFile is issued.
LoadMkdirDone ==
    /\ pc[0] = "lMkdir"
    /\ \E outcome \in FsOutcomes : dir' = EnsuredDir(outcome)
    /\ fsLog' = fsLog \cup {<<"initialize", "mkdir">>}
    /\ pc' = [pc EXCEPT ![0] = "lRead"]
    /\ UNCHANGED <<clock, envVars, srvVars, session, file, held, res, authResp, oauthVars, obs, boot>>

\* What initialize() does with the text f it read: this.session =
\* JSON.parse(data), then the validity check.
AdoptLoaded(f) ==
    IF isSessionValid(Parse(f), now)
    THEN BeginRefresh(0, Parse(f))
    ELSE /\ session' = Parse(f)
         /\ UNCHANGED <<held, obs>>
         /\ startOAuthFlow

\* readFile ends: the text is parsed and adopted, or the error is caught.
LoadReadDone ==
    /\ pc[0] = "lRead"
    /\ fsLog' = fsLog \cup {<<"initialize", "read">>}
    /\ \E outcome \in FsOutcomes :
         IF outcome = "fail" \/ file = Absent \/ ParseThrows(file)
         THEN /\ boot' = [boot EXCEPT !.loaded = IF outcome = "fail" THEN Absent ELSE file,
                                      !.at = now]
              /\ UNCHANGED <<session, held, obs>>
              /\ startOAuthFlow
         ELSE /\ boot' = [boot EXCEPT !.loaded = file, !.at = now]
              /\ AdoptLoaded(file)
    /\ UNCHANGED <<clock, envVars, srvVars, file, dir, authResp>>

\* ------------------------------------------------- the OAuth callback listener
\* server.close()
Close ==
    /\ server' = "closed"
    /\ closes' = closes + 1

\* A request to /callback reaches the listener: the synchronous part of its
\* handler, up to `await this.saveSession()` (whose ensureSessionDir() issues
\* mkdir).
OnCallback(q, limit) ==
    /\ server = "listening"
    /\ nReq < limit
    /\ nReq' = nReq + 1
    /\ hreq' = [hreq EXCEPT ![nReq + 1] = q]
    /\ IF MissingParameters(q)
       THEN /\ Close
            /\ Settle(Err("OAuthCallbackIncomplete"))
            /\ hpc' = [hpc EXCEPT ![nReq + 1] = "done"]
            /\ UNCHANGED session
       ELSE /\ session' = CallbackSession(q, now)
            /\ hpc' = [hpc EXCEPT ![nReq + 1] = "mkdir"]
            /\ UNCHANGED <<server, closes, promise, pc, res>>
    /\ UNCHANGED <<clock, envVars, srvVars, fsVars, held, authResp, deadline, timerFired, hdata,
                   obs, boot>>

\* saveSession() of a handler: mkdir ends, writeFile is issued.
HandlerMkdirDone(h) ==
    /\ hpc[h] = "mkdir"
    /\ \E outcome \in FsOutcomes : dir' = EnsuredDir(outcome)
    /\ fsLog' = fsLog \cup {<<"callback", "mkdir">>}
    /\ hdata' = [hdata EXCEPT ![h] = Stringify(session)]
    /\ hpc' = [hpc EXCEPT ![h] = "write"]
    /\ UNCHANGED <<clock, envVars, srvVars, session, file, pc, held, res, authResp, server, closes,
                   promise, deadline, timerFired, hreq, nReq, obs, boot>>

\* saveSession() of a handler: writeFile ends; the handler answers 200,
\* closes the listener and resolves.  A failed write rejects the handler's
\* own promise, which nothing awaits.
HandlerWriteDone(h) ==
    /\ hpc[h] = "write"
    /\ fsLog' = fsLog \cup {<<"callback", "write">>}
    /\ \E outcome \in FsOutcomes :
         IF outcome = "ok" /\ dir
         THEN /\ file' = hdata[h]
              /\ Close
              /\ Settle(Ok(""))
              /\ hpc' = [hpc EXCEPT ![h] = "done"]
         ELSE /\ hpc' = [hpc EXCEPT ![h] = "failed"]
              /\ UNCHANGED <<file, server, closes, promise, pc, res>>
    /\ UNCHANGED <<clock, envVars, srvVars, session, dir, held, authResp, deadline, timerFired,
                   hdata, hreq, nReq, obs, boot>>

\* Mutant: the timer closes the listener and does not reject.
TimerFires_CloseOnly ==
    /\ deadline > 0
    /\ ~timerFired
    /\ now >= deadline
    /\ timerFired' = TRUE
    /\ Close
    /\ UNCHANGED <<clock, envVars, srvVars, session, fsVars, held, authResp, deadline, hpc, hdata,
                   hreq, nReq, obs, boot, promise, pc, res>>

\* The setTimeout callback runs, 5 minutes after the flow started or later.
TimerFires ==
    /\ deadline > 0
    /\ ~timerFired
    /\ now >= deadline
    /\ timerFired' = TRUE
    /\ Close
    /\ Settle(Err("OAuthTimeout"))
    /\ UNCHANGED <<clock, envVars, srvVars, session, fsVars, held, authResp, deadline, hpc, hdata,
                   hreq, nReq, obs, boot>>

Next ==
    \/ initialize
    \/ ManualAuthResponse
    \/ ManualWalletResponse
    \/ LoadMkdirDone
    \/ LoadReadDone
    \/ \E q \in CallbackRequests : OnCallback(q, MaxCallbacks)
    \/ \E h \in Handlers : HandlerMkdirDone(h)
    \/ \E h \in Handlers : HandlerWriteDone(h)
    \/ TimerFires
    \/ Tick
    \/ \E p \in Procs : RefreshAuthResponse(p)
    \/ \E p \in Procs : SaveMkdirDone(p)
    \/ \E p \in Procs : SaveWriteDone(p)
    \/ \E p \in Procs : ClearUnlinkDone(p)
    \/ \E c \in Callers : Call(c)

Spec == Init /\ [][Next]_vars

\* ------------------------------------------------------- MoonGateMCPServer
\* Tools of the registry (tools/index.ts); its handlers all have the shape of
\* get_wallet_address: getToken(), a call of the wallet API, the result.
RegisteredTools ==
    {"get_wallet_address", "sign_message", "sign_transaction", "send_token",
     "get_portfolio", "swap_token"}
\* Tool names of the tools/call requests received.
RequestedTools == {"get_wallet_address", "no_such_tool"}

\* What the CallTool request handler returns (content, isError) or throws.
ResultPayload(name) == [kind |-> "result", tool |-> name, error |-> ""]
ErrorPayload(name, message) ==
    [kind |-> "error", tool |-> name,
     error |-> (IF message = "" THEN "Unknown error" ELSE message)]
Thrown(name) == [kind |-> "thrown", tool |-> "", error |-> "UnknownTool"]

\* Mutant: connect() is not preceded by `await initialize()`.
Connect_WithoutAwait ==
    /\ transport = "none"
    /\ transport' = "connected"
    /\ UNCHANGED <<clock, envVars, session, fsVars, pc, held, res, authResp, oauthVars,
                   obs, boot, tool, tpc, reply, toolVars>>

\* start(): initialize() has returned, server.connect(transport).
Connect ==
    /\ transport = "none"
    /\ pc[0] = "done" /\ res[0].kind = "ok"
    /\ transport' = "connected"
    /\ UNCHANGED <<clock, envVars, session, fsVars, pc, held, res, authResp, oauthVars,
                   obs, boot, tool, tpc, reply, toolVars>>

\* start(): initialize() has thrown; main() logs and calls process.exit(1).
Exit ==
    /\ transport = "none"
    /\ pc[0] = "done" /\ res[0].kind = "err"
    /\ transport' = "exited"
    /\ UNCHANGED <<clock, envVars, session, fsVars, pc, held, res, authResp, oauthVars,
                   obs, boot, tool, tpc, reply, toolVars>>

\* A tools/call request for tool `name` arrives over the transport: the
\* CallTool request handler up to the first suspension point.  An unknown
\* name throws before the try block; otherwise the tool's handler runs and
\* calls getToken().
CallTool(c, name) ==
    /\ transport = "connected"
    /\ tool[c] = "none"
    /\ c > 1 => tool[c - 1] # "none"
    /\ tool' = [tool EXCEPT ![c] = name]
    /\ IF name \notin RegisteredTools
       THEN /\ reply' = [reply EXCEPT ![c] = Thrown(name)]
            /\ tpc' = [tpc EXCEPT ![c] = "done"]
            /\ UNCHANGED <<clock, envVars, session, fsVars, pc, held, res, authResp,
                           oauthVars, obs, boot>>
       ELSE /\ getToken(c)
            /\ tpc' = [tpc EXCEPT ![c] = "token"]
            /\ UNCHANGED reply
    /\ UNCHANGED <<transport, toolVars>>

\* getToken() has returned to the tool's handler: with a token the wallet
\* API is called; an error is rethrown by the tool's catch block and caught
\* by the CallTool request handler, which returns the error payload.
ToolGotToken(c) ==
    /\ tpc[c] = "token"
    /\ pc[c] = "done"
    /\ IF res[c].kind = "ok"
       THEN tpc' = [tpc EXCEPT ![c] = "api"] /\ UNCHANGED reply
       ELSE /\ tpc' = [tpc EXCEPT ![c] = "done"]
            /\ reply' = [reply EXCEPT ![c] = ErrorPayload(tool[c], res[c].val)]
    /\ UNCHANGED <<clock, envVars, session, fsVars, pc, held, res, authResp, oauthVars,
                   obs, boot, transport, tool, toolVars>>

\* The wallet API answers the tool's call or rejects it.
ToolApiResponse(c) ==
    /\ tpc[c] = "api"
    /\ tpc' = [tpc EXCEPT ![c] = "done"]
    /\ \E ok \in BOOLEAN :
         reply' = [reply EXCEPT ![c] =
                     IF ok THEN ResultPayload(tool[c])
                     ELSE ErrorPayload(tool[c], "UpstreamError")]
    /\ UNCHANGED <<clock, envVars, session, fsVars, pc, held, res, authResp, oauthVars,
                   obs, boot, transport, tool, toolVars>>

\* The server: start(), then tools/call requests in place of direct calls.
NextServer ==
    \/ initialize
    \/ ManualAuthResponse
    \/ ManualWalletResponse
    \/ LoadMkdirDone
    \/ LoadReadDone
    \/ \E q \in CallbackRequests : OnCallback(q, MaxCallbacks)
    \/ \E h \in Handlers : HandlerMkdirDone(h)
    \/ \E h \in Handlers : HandlerWriteDone(h)
    \/ TimerFires
    \/ Tick
    \/ \E p \in Procs : RefreshAuthResponse(p)
    \/ \E p \in Procs : SaveMkdirDone(p)
    \/ \E p \in Procs : SaveWriteDone(p)
    \/ \E p \in Procs : ClearUnlinkDone(p)
    \/ Connect
    \/ Exit
    \/ \E c \in Callers : \E name \in RequestedTools : CallTool(c, name)
    \/ \E c \in Callers : ToolGotToken(c)
    \/ \E c \in Callers : ToolApiResponse(c)

SpecServer == Init /\ [][NextServer]_vars

\* The same program on a file system whose calls may fail (disk full, no
\* permission, directory removed).
InitFaults == InitCommon /\ faults = TRUE
SpecFaults == InitFaults /\ [][Next]_vars

\* The same program with any content of the session file and of the
\* upstream's answers: a file holding the text null, a record whose token
\* is empty, an /api2/auth body without a token.
OpenFiles ==
    InitialFiles
    \cup {Stringify(Null),
          Stringify(SessionData("", "pkP", "uP", "google", Epoch - 1, Epoch - 1 + SEVEN_DAYS))}
InitOpen == InitWith(OpenFiles) /\ faults = FALSE /\ tokenless = TRUE
SpecOpen == InitOpen /\ [][Next]_vars

\* The server is connected after initialize() has adopted, without a
\* refresh, a session read from the session file.
FreshSession ==
    SessionData("tP", "pkP", "uP", "google",
                Epoch + TOKEN_REFRESH_THRESHOLD + 1 - SEVEN_DAYS,
                Epoch + TOKEN_REFRESH_THRESHOLD + 1)
Serving ==
    /\ manualToken = JsUndefined /\ faults = FALSE /\ tokenless = FALSE
    /\ session = FreshSession
    /\ file = Stringify(FreshSession) /\ dir = TRUE
    /\ pc = [p \in Procs |-> IF p = 0 THEN "done" ELSE "idle"]
    /\ held = [p \in Procs |-> Absent]
    /\ res = [p \in Procs |-> IF p = 0 THEN Ok("") ELSE NoResult]
    /\ authResp = NoAuthResponse
    /\ server = "none" /\ closes = 0 /\ promise = "none"
    /\ deadline = 0 /\ timerFired = FALSE
    /\ hpc = [h \in Handlers |-> "unused"]
    /\ hdata = [h \in Handlers |-> Absent]
    /\ hreq = [h \in Handlers |-> NoReq]
    /\ nReq = 0
    /\ obs = [p \in Procs |-> NoObs]
    /\ boot = [path |-> "persisted", loaded |-> Stringify(FreshSession), at |-> Epoch]
    /\ fsLog = {<<"initialize", "mkdir">>, <<"initialize", "read">>}
    /\ transport = "connected"
    /\ tool = [c \in Callers |-> "none"]
    /\ tpc = [c \in Callers |-> "idle"]
    /\ reply = [c \in Callers |-> NoReply]

\* ----------------------------------------------------------- get_token_info
DAY == 24 * 60 * 60

\* Bodies /tokens/token-info answers with (the fields the risk assessment
\* reads; holdersCount stands for holdersCount || holders).
SocialLinks(website, twitter, telegram) ==
    [website |-> website, twitter |-> twitter, telegram |-> telegram]
TokenInfos ==
    [liquidity : {None, Some(5000), Some(50000)},
     holdersCount : {None, Some(50), Some(5000)},
     topHoldersPercent : {None, Some(90), Some(30)},
     mintable : {None, Some(TRUE), Some(FALSE)},
     freezable : {Some(TRUE), Some(FALSE)},
     lockedLiquidityPercent : {None, Some(20), Some(80)},
     snipersPercent : {None, Some(20)},
     devHoldersPercent : {None, Some(20)},
     createdAt : {None, Some(Epoch - 60 * 60), Some(Epoch - 30 * DAY)},
     socialLinks : {None, Some(SocialLinks("", "", "")),
                    Some(SocialLinks("https://t", "", ""))},
     buyerSentimentPercent : {None, Some(20), Some(70)}]

\* JavaScript: x ? x : 0 and x || 0 of an optional number.
NumOrZero(x) == IF x = None THEN 0 ELSE x[1]
\* One entry pushed to riskIndicators, or none.
Push(cond, indicator) == IF cond THEN <<indicator>> ELSE <<>>

\* The risk indicators the handler collects, in the order of its checks.
RiskIndicators(d, t) ==
    LET liquidity == NumOrZero(d.liquidity)
        holders == NumOrZero(d.holdersCount)
        top == NumOrZero(d.topHoldersPercent)
        age == t - NumOrZero(d.createdAt)
        hasSocials ==
            /\ d.socialLinks # None
            /\ \/ Truthy(d.socialLinks[1].twitter)
               \/ Truthy(d.socialLinks[1].website)
               \/ Truthy(d.socialLinks[1].telegram)
    IN  Push(liquidity < 1000, "LowLiquidity")
        \o Push(liquidity >= 1000 /\ liquidity < 10000, "ModerateLiquidity")
        \o Push(holders # 0 /\ holders < 100, "VeryFewHolders")
        \o Push(holders # 0 /\ holders >= 100 /\ holders < 1000, "LowHolderCount")
        \o Push(top # 0 /\ top > 80, "ExtremelyConcentrated")
        \o Push(top # 0 /\ top <= 80 /\ top > 50, "HighConcentration")
        \o Push(d.mintable = Some(TRUE), "Mintable")
        \o Push(d.freezable = Some(TRUE), "Freezable")
        \o Push(d.lockedLiquidityPercent # None /\ NumOrZero(d.lockedLiquidityPercent) < 50,
                "LowLockedLiquidity")
        \o Push(NumOrZero(d.snipersPercent) > 10, "HighSniperActivity")
        \o Push(NumOrZero(d.devHoldersPercent) > 10, "HighDevHoldings")
        \o Push(NumOrZero(d.createdAt) # 0 /\ age < DAY, "VeryNewToken")
        \o Push(NumOrZero(d.createdAt) # 0 /\ age >= DAY /\ age < 7 * DAY, "NewToken")
        \o Push(~hasSocials, "NoSocialLinks")
        \o Push(d.buyerSentimentPercent # None /\ NumOrZero(d.buyerSentimentPercent) < 30,
                "VeryBearishSentiment")

\* overallRisk and recommendation, from riskIndicators.length
overallRisk(n) == IF n = 0 THEN "LOW" ELSE IF n <= 2 THEN "MODERATE" ELSE "HIGH"
recommendation(n) ==
    IF n >= 5 THEN "HighRisk" ELSE IF n >= 3 THEN "ModerateRisk" ELSE "RelativelySafe"

riskAssessment(d, t) ==
    LET collected == RiskIndicators(d, t)
        n == Len(collected)
    IN  [n |-> n,
         riskIndicators |-> IF n > 0 THEN collected ELSE <<"NoMajorRedFlags">>,
         overallRisk |-> overallRisk(n),
         recommendation |-> recommendation(n)]

\* The handler of get_token_info, from the answer of /tokens/token-info on:
\* it collects the indicators and builds the result.
getTokenInfo ==
    /\ tokenData # NoTokenInfo
    /\ assessment = NoAssessment
    /\ assessment' = riskAssessment(tokenData, now)
    /\ UNCHANGED <<clock, envVars, session, fsVars, pc, held, res, authResp, oauthVars, obs,
                   boot, transport, tool, tpc, reply, tokenData, sargs, portfolio, spc,
                   sent, sres>>

InitRisk ==
    /\ Serving
    /\ now = Epoch /\ ticks = 0
    /\ tokenData \in TokenInfos
    /\ assessment = NoAssessment
    /\ sargs = NoArgs /\ portfolio = NoPortfolio /\ spc = "idle" /\ sent = <<>> /\ sres = NoResult

NextRisk == getTokenInfo

SpecRisk == InitRisk /\ [][NextRisk]_vars

\* ---------------------------------------------------------------- send_token
\* Strings are sequences of characters, so that trim(), toLowerCase() and
\* includes() are computed.  A JSON value of the arguments or of a response
\* body is a string, a number or undefined.
ArgUndefined == [type |-> "undefined", str |-> <<>>, num |-> 0]
ArgString(s) == [type |-> "string", str |-> s, num |-> 0]
ArgNumber(k) == [type |-> "number", str |-> <<>>, num |-> k]
\* The result of a numeric conversion that is not a number.
NaN == [type |-> "NaN", str |-> <<>>, num |-> 0]

LowerChar(ch) ==
    CASE ch = "M" -> "m" [] ch = "S" -> "s" [] ch = "O" -> "o" [] ch = "L" -> "l"
      [] ch = "W" -> "w" [] ch = "U" -> "u" [] OTHER -> ch
toLowerCase(s) == [i \in 1 .. Len(s) |-> LowerChar(s[i])]

RECURSIVE trimStart(_)
trimStart(s) == IF s # <<>> /\ Head(s) = " " THEN trimStart(Tail(s)) ELSE s
RECURSIVE trimEnd(_)
trimEnd(s) ==
    IF s # <<>> /\ s[Len(s)] = " " THEN trimEnd(SubSeq(s, 1, Len(s) - 1)) ELSE s
trim(s) == trimEnd(trimStart(s))

includes(s, sub) ==
    \E i \in 0 .. (Len(s) - Len(sub)) : SubSeq(s, i + 1, i + Len(sub)) = sub

Digits == <<"0", "1", "2", "3", "4", "5", "6", "7", "8", "9">>
IsDigit(ch) == \E d \in 1 .. 10 : Digits[d] = ch
DigitValue(ch) == (CHOOSE d \in 1 .. 10 : Digits[d] = ch) - 1
RECURSIVE ParseDigits(_, _)
ParseDigits(s, acc) ==
    IF s = <<>> THEN acc ELSE ParseDigits(Tail(s), 10 * acc + DigitValue(Head(s)))

\* ToNumber: the conversion Number(v) and the operator < apply to a value.
ToNumber(v) ==
    CASE v.type = "number" -> v
      [] v.type = "string" ->
            IF trim(v.str) = <<>> THEN ArgNumber(0)
            ELSE IF \A i \in 1 .. Len(trim(v.str)) : IsDigit(trim(v.str)[i])
                 THEN ArgNumber(ParseDigits(trim(v.str), 0))
                 ELSE NaN
      [] OTHER -> NaN

\* a < b on a number a and any value b: false when b converts to NaN.
JsLess(a, b) == ToNumber(b).type = "number" /\ a < ToNumber(b).num

\* x || 0 on the result of Number(...)
OrZero(v) == IF v.type = "number" THEN v.num ELSE 0

\* typeof x === 'string' ? x.trim() : undefined
Trimmed(v) == IF v.type = "string" THEN ArgString(trim(v.str)) ELSE ArgUndefined

\* Truthiness of a string or undefined.
Given(v) == v.type = "string" /\ v.str # <<>>

NormalizedToken(mint, decimals, symbol, name, balance) ==
    [mint |-> mint, decimals |-> decimals, symbol |-> symbol, name |-> name,
     balance |-> balance]

\* normalizePortfolioToken(t), for a token that keeps its fields under the keys
\* mint, decimals, symbol, name and balance: None when it has no mint.
Unknown == <<"U", "N", "K">>
Usable(t) == t.mint.type = "string" /\ t.mint.str # <<>>
normalizePortfolioToken(t) ==
    LET symbol == IF Given(t.symbol) THEN t.symbol.str ELSE Unknown
    IN  NormalizedToken(t.mint.str,
                        IF t.decimals.type = "undefined" THEN 9
                        ELSE OrZero(ToNumber(t.decimals)),
                        symbol,
                        IF Given(t.name) THEN t.name.str ELSE symbol,
                        IF t.balance.type = "undefined" THEN 0
                        ELSE OrZero(ToNumber(t.balance)))

\* rawTokens.map(normalizePortfolioToken).filter(t => t != null)
RECURSIVE Normalized(_)
Normalized(raw) ==
    IF raw = <<>> THEN <<>>
    ELSE IF Usable(Head(raw))
         THEN <<normalizePortfolioToken(Head(raw))>> \o Normalized(Tail(raw))
         ELSE Normalized(Tail(raw))

\* tokens.find(pred): the first token that satisfies it, or None.
RECURSIVE Find(_, _, _)
byMint(t, m) == toLowerCase(t.mint) = toLowerCase(m)
bySymbol(t, s) == toLowerCase(t.symbol) = toLowerCase(s)
byName(t, n) == includes(toLowerCase(t.name), toLowerCase(n))
Matches(by, t, x) ==
    CASE by = "mint" -> byMint(t, x)
      [] by = "symbol" -> bySymbol(t, x)
      [] OTHER -> byName(t, x)
Find(tokens, by, x) ==
    IF tokens = <<>> THEN None
    ELSE IF Matches(by, Head(tokens), x) THEN Some(Head(tokens))
         ELSE Find(Tail(tokens), by, x)

\* a ?? b on the results of find
Else(a, b) == IF a # None THEN a ELSE b

\* The match of resolveTokenFromPortfolio(): None when there is none.
Match(tokens, tokenMint, tokenName, tokenSymbol) ==
    IF Given(tokenMint) THEN Find(tokens, "mint", tokenMint.str)
    ELSE IF Given(tokenSymbol)
         THEN Else(Find(tokens, "symbol", tokenSymbol.str),
                   Find(tokens, "name", tokenSymbol.str))
         ELSE IF Given(tokenName)
              THEN Else(Find(tokens, "name", tokenName.str),
                        Find(tokens, "symbol", tokenName.str))
              ELSE None

\* Mutant: the balance is never found too small.
InsufficientBalance_Never(resolved, amount) == FALSE

\* if (resolved.balance < args.amount) throw
InsufficientBalance(resolved, amount) == JsLess(resolved.balance, amount)

\* The body of the /sending/sendtoken request.
Payload(resolved, args) ==
    [tokenMint |-> resolved.mint, amount |-> args.amount,
     decimals |-> IF args.decimals.type = "undefined" THEN resolved.decimals
                  ELSE OrZero(ToNumber(args.decimals))]

\* What the upstream can answer /api2/wallet-portfolio with.
RawToken(mint, symbol, name, balance) ==
    [mint |-> mint, decimals |-> ArgNumber(6), symbol |-> symbol, name |-> name,
     balance |-> balance]
WrappedSol ==
    RawToken(ArgString(<<"M", "a">>), ArgString(<<"S", "O", "L">>),
             ArgString(<<"W", " ", "S", "O", "L">>), ArgNumber(5))
Usd ==
    RawToken(ArgString(<<"M", "b">>), ArgString(<<"U">>),
             ArgString(<<"U", "s", "d">>), ArgUndefined)
Mintless ==
    RawToken(ArgUndefined, ArgString(<<"S", "O", "L">>), ArgUndefined, ArgNumber(9))
PortfolioResponses ==
    {[kind |-> "rejected", tokens |-> <<>>], [kind |-> "notArray", tokens |-> <<>>]}
    \cup {[kind |-> "tokens", tokens |-> ts] :
            ts \in {<<>>, <<WrappedSol>>, <<Usd, WrappedSol>>, <<Mintless, Usd>>,
                    <<Mintless, WrappedSol, Usd>>}}

\* The arguments of the calls made.
MintArgs ==
    {ArgUndefined, ArgString(<<" ">>), ArgString(<<" ", "m", "A">>), ArgString(<<"M", "c">>)}
SymbolArgs == {ArgUndefined, ArgString(<<"s", "o", "l">>), ArgString(<<"U", "s">>)}
NameArgs == {ArgUndefined, ArgNumber(1), ArgString(<<"s", "o", "l", " ">>), ArgString(<<"u">>)}
AmountArgs ==
    {ArgNumber(0), ArgNumber(5), ArgNumber(7), ArgString(<<"7">>), ArgString(<<"x">>),
     ArgUndefined}
SendArgs ==
    [tokenMint : MintArgs, tokenName : NameArgs, tokenSymbol : SymbolArgs,
     amount : AmountArgs, decimals : {ArgUndefined}, userWallet : BOOLEAN]

SendEnds(e) ==
    /\ spc' = "done"
    /\ sres' = Err(e)
    /\ UNCHANGED <<sargs, portfolio, sent>>

\* The handler of send_token up to its first await.
sendToken ==
    /\ spc = "idle"
    /\ sargs # NoArgs
    /\ IF ~Given(Trimmed(sargs.tokenMint)) /\ ~Given(Trimmed(sargs.tokenName))
          /\ ~Given(Trimmed(sargs.tokenSymbol))
       THEN /\ SendEnds("ProvideAtLeastOne")
            /\ UNCHANGED <<clock, envVars, session, fsVars, pc, held, res, authResp,
                           oauthVars, obs, boot>>
       ELSE /\ getToken(1)
            /\ spc' = "token"
            /\ UNCHANGED <<sargs, portfolio, sent, sres>>
    /\ UNCHANGED <<transport, tool, tpc, reply, tokenData, assessment>>

SendFrame ==
    UNCHANGED <<clock, envVars, session, fsVars, pc, held, res, authResp, oauthVars, obs,
                boot, transport, tool, tpc, reply, tokenData, assessment>>

\* getToken() has settled.
SendGotToken ==
    /\ spc = "token"
    /\ pc[1] = "done"
    /\ IF res[1].kind = "err"
       THEN SendEnds("FailedToSendToken")
       ELSE /\ spc' = IF sargs.userWallet THEN "portfolio" ELSE "wallet"
            /\ UNCHANGED <<sargs, portfolio, sent, sres>>
    /\ SendFrame

\* /api2/getwalletaddress has answered or failed.
SendWalletResponse ==
    /\ spc = "wallet"
    /\ \E ok \in BOOLEAN :
         IF ok
         THEN /\ spc' = "portfolio"
              /\ UNCHANGED <<sargs, portfolio, sent, sres>>
         ELSE SendEnds("FailedToSendToken")
    /\ SendFrame

\* /api2/wallet-portfolio has answered or failed: the rest of
\* resolveTokenFromPortfolio() and the handler up to the transfer request.
SendPortfolioResponse ==
    /\ spc = "portfolio"
    /\ \E r \in PortfolioResponses :
         LET match == Match(Normalized(r.tokens), Trimmed(sargs.tokenMint),
                            Trimmed(sargs.tokenName), Trimmed(sargs.tokenSymbol))
             Fails(e) == /\ spc' = "done"
                         /\ sres' = Err(e)
                         /\ UNCHANGED sent
         IN  /\ portfolio' = r
             /\ IF r.kind # "tokens" THEN Fails("FailedToSendToken")
                ELSE IF match = None THEN Fails("TokenNotFoundInPortfolio")
                ELSE IF InsufficientBalance(match[1], sargs.amount)
                     THEN Fails("InsufficientBalance")
                     ELSE /\ sent' = Append(sent, Payload(match[1], sargs))
                          /\ spc' = "send"
                          /\ UNCHANGED sres
    /\ UNCHANGED sargs
    /\ SendFrame

\* /sending/sendtoken has answered or failed.
SendTransferResponse ==
    /\ spc = "send"
    /\ \E ok \in BOOLEAN :
         /\ spc' = "done"
         /\ sres' = IF ok THEN Ok("sent") ELSE Err("FailedToSendToken")
    /\ UNCHANGED <<sargs, portfolio, sent>>
    /\ SendFrame

\* One send_token call on a connected server whose session is fresh or due
\* for a refresh.
InitSend ==
    /\ Serving
    /\ ticks \in {0, 1}
    /\ now = Epoch + ticks * OAUTH_TIMEOUT
    /\ tokenData = NoTokenInfo /\ assessment = NoAssessment
    /\ sargs \in SendArgs
    /\ portfolio = NoPortfolio /\ spc = "idle" /\ sent = <<>> /\ sres = NoResult

NextSend ==
    \/ sendToken
    \/ SendGotToken
    \/ SendWalletResponse
    \/ SendPortfolioResponse
    \/ SendTransferResponse
    \/ RefreshAuthResponse(1)
    \/ SaveMkdirDone(1)
    \/ SaveWriteDone(1)
    \/ ClearUnlinkDone(1)

SpecSend == InitSend /\ [][NextSend]_vars

\* The OAuth flow alone: initialize() with up to MaxFlowCallbacks callback
\* requests and no getToken() call.
NextFlow ==
    \/ initialize
    \/ ManualAuthResponse
    \/ ManualWalletResponse
    \/ LoadMkdirDone
    \/ LoadReadDone
    \/ \E q \in CallbackRequests : OnCallback(q, MaxFlowCallbacks)
    \/ \E h \in Handlers : HandlerMkdirDone(h)
    \/ \E h \in Handlers : HandlerWriteDone(h)
    \/ TimerFires
    \/ Tick
    \/ RefreshAuthResponse(0)
    \/ SaveMkdirDone(0)
    \/ SaveWriteDone(0)
    \/ ClearUnlinkDone(0)

SpecFlow == Init /\ [][NextFlow]_vars

\* The event loop runs every callback that is due: a timer that is due
\* fires, time passes, and a file-system call or an upstream call that was
\* issued ends (the HTTP client has a 30 s timeout).
FlowFairness ==
    /\ WF_vars(Tick)
    /\ WF_vars(TimerFires)
    /\ WF_vars(ManualAuthResponse)
    /\ WF_vars(ManualWalletResponse)
    /\ WF_vars(LoadMkdirDone)
    /\ WF_vars(LoadReadDone)
    /\ WF_vars(RefreshAuthResponse(0))
    /\ WF_vars(SaveMkdirDone(0))
    /\ WF_vars(SaveWriteDone(0))
    /\ WF_vars(ClearUnlinkDone(0))
    /\ WF_vars(initialize)

SpecFlowFair == Init /\ [][NextFlow]_vars /\ FlowFairness

\* =============================================================== properties
\* The step by which getToken() call c is made, and the one by which it ends.
Calls(c) == pc[c] = "idle" /\ pc'[c] # "idle"
Returns(c) == pc[c] # "done" /\ pc'[c] = "done"

\* C1: a getToken() call that finds a session whose expiresAt is more than
\* 1 hour after the current time returns that session's token at once, issues
\* no /api2/auth call, and leaves this.session, the session file and its
\* directory as they are.
C1_FreshSessionNoRefresh ==
    [][\A c \in Callers :
         (Calls(c) /\ session # Null
            /\ session.expiresAt - now > TOKEN_REFRESH_THRESHOLD)
         => /\ pc'[c] = "done"
            /\ res'[c] = Ok(session.token)
            /\ obs'[c].nAuth = 0
            /\ session' = session
            /\ file' = file
            /\ dir' = dir]_vars

\* A getToken() call on a loaded session with more than 1 hour to go has
\* returned its token without a refresh.
C1_Witness ==
    \E c \in Callers :
        /\ boot.path = "persisted" /\ server = "none"
        /\ pc[c] = "done" /\ obs[c].nAuth = 0
        /\ session # Null /\ session.expiresAt - now > TOKEN_REFRESH_THRESHOLD
        /\ res[c] = Ok(session.token)

\* C2: a getToken() call that finds a session with expiresAt - now < 1 hour
\* issues one /api2/auth call and no more; if no other getToken() call
\* overlaps it and the upstream answers with a token, then when the call
\* returns, it returns that token, this.session has that token and an
\* expiresAt of 7 days after the time at which the answer was applied, and
\* the session file holds exactly the serialized this.session.
C2_RefreshOnceAndPersist ==
    [][\A c \in Callers :
         /\ (Calls(c) /\ session # Null
               /\ session.expiresAt - now < TOKEN_REFRESH_THRESHOLD)
            => (pc'[c] = "auth" /\ obs'[c].nAuth = 1)
         /\ (pc'[c] \in {"auth", "mkdir", "write", "unlink"}) => obs'[c].nAuth = 1
         /\ (obs'[c].alone /\ obs'[c].upstream = "ok") => pc'[c] # "unlink"
         /\ (Returns(c) /\ obs'[c].alone /\ obs'[c].upstream = "ok")
            => /\ res'[c] = Ok(AuthToken(c))
               /\ session' # Null
               /\ session'.token = AuthToken(c)
               /\ session'.expiresAt = obs'[c].tAuth + SEVEN_DAYS
               /\ file' = Stringify(session')
               /\ Parse(file') = session']_vars

\* A getToken() call, overlapped by no other, has refreshed the session and
\* returned the new token.
C2_Witness ==
    \E c \in Callers :
        /\ pc[c] = "done" /\ obs[c].alone /\ obs[c].upstream = "ok" /\ obs[c].nAuth = 1
        /\ res[c] = Ok(AuthToken(c))
        /\ session # Null /\ session.token = AuthToken(c)
        /\ file = Stringify(session)

\* C3: when the /api2/auth call of a getToken() call's refresh is rejected,
\* the call ends with SessionExpired, and at that moment this.session is null
\* and the session file does not exist; from then on this.session stays null,
\* so getSession() fails with NotAuthenticated.
C3_RefreshFailureDestroys ==
    [][\A c \in Callers :
         /\ (Returns(c) /\ obs'[c].upstream = "rejected")
            => /\ res'[c] = Err("SessionExpired")
               /\ session' = Null
               /\ file' = Absent
         /\ (pc'[c] = "done" /\ obs'[c].upstream = "rejected")
            => /\ session' = Null
               /\ getSession' = Err("NotAuthenticated")]_vars

\* A getToken() call whose refresh was rejected has ended: the session file
\* that initialize() had read is gone, and so is the session.
C3_Witness ==
    \E c \in Callers :
        /\ pc[c] = "done" /\ obs[c].upstream = "rejected"
        /\ res[c] = Err("SessionExpired")
        /\ boot.loaded.kind = "object" /\ file = Absent /\ session = Null

\* C4: at most one refresh (the /api2/auth call, the update of this.session,
\* the write of the session file) is in progress at any time.
C4_OneRefreshAtATime ==
    Cardinality({c \in Callers : pc[c] \in {"auth", "mkdir", "write"}}) <= 1

\* C5: with MOONGATE_TOKEN set, initialize() makes no file-system call on
\* the session file or its directory, and neither changes while it runs,
\* whether the token's validation succeeds or fails.
C5_ManualTokenBypassesStore ==
    [][Truthy(manualToken)
       => /\ pc[0] # "done" => (file' = file /\ dir' = dir /\ fsLog' = fsLog)
          /\ \A e \in fsLog' : e[1] \notin {"initialize", "callback"}
          /\ pc'[0] \notin {"lMkdir", "lRead"}]_vars

\* initialize() has ended on a rejected MOONGATE_TOKEN while a session file
\* of an earlier run exists.
C5_Witness ==
    /\ Truthy(manualToken) /\ pc[0] = "done"
    /\ res[0] = Err("InvalidManualToken")
    /\ file.kind = "object" /\ fsLog = {}

\* C6: with MOONGATE_TOKEN set, once the upstream has rejected its
\* validation (the /api2/auth call or the /api2/getwalletaddress call),
\* initialize() has failed with InvalidManualToken, this.session is null,
\* the session file was not tried and the OAuth listener was never started.
C6_InvalidManualTokenFailsFast ==
    (Truthy(manualToken) /\ obs[0].upstream = "rejected")
    => /\ pc[0] = "done"
       /\ res[0] = Err("InvalidManualToken")
       /\ session = Null
       /\ \A e \in fsLog : e[1] # "initialize"
       /\ server = "none" /\ promise = "none" /\ deadline = 0 /\ nReq = 0

\* The /api2/getwalletaddress call of a manual token's validation was
\* rejected.
C6_Witness ==
    /\ Truthy(manualToken) /\ obs[0].upstream = "rejected"
    /\ authResp # NoAuthResponse
    /\ res[0] = Err("InvalidManualToken")

\* C7: after initialize() has taken the static-token path, no step writes
\* or deletes the session file.
C7_ManualSessionNeverPersisted ==
    [][boot.path = "manual" => file' = file]_vars

\* The record initialize() read from the session file, when it had expired
\* by the time it was read, and when it had not.
LoadedExpired ==
    boot.loaded.kind = "object" /\ Parse(boot.loaded).expiresAt <= boot.at
LoadedValid ==
    boot.loaded.kind = "object" /\ boot.at < Parse(boot.loaded).expiresAt

\* C8: once initialize() has completed, a record that had expired when it
\* was read from the session file is not this.session.
C8_ExpiredRecordNotAdopted ==
    (pc[0] = "done" /\ LoadedExpired) => session # Parse(boot.loaded)

\* C9: with no MOONGATE_TOKEN and a session file whose record has not
\* expired when it is read, unless the upstream rejects its refresh, the
\* OAuth listener is never started and initialize() does not fail; when
\* initialize() returns, this.session is that record, with a new token and
\* expiresAt when it was refreshed.
C9_ValidPersistedAdopted ==
    [][(~Truthy(manualToken) /\ LoadedValid' /\ obs'[0].upstream # "rejected")
       => /\ server' = "none" /\ promise' = "none" /\ deadline' = 0 /\ nReq' = 0
          /\ res'[0].kind # "err"
          /\ Returns(0)
             => /\ res'[0].kind = "ok"
                /\ session' # Null
                /\ session' =
                     IF obs'[0].nAuth = 0 THEN Parse(boot'.loaded)
                     ELSE [Parse(boot'.loaded) EXCEPT
                             !.token = AuthToken(0),
                             !.expiresAt = obs'[0].tAuth + SEVEN_DAYS]]_vars

\* initialize() has returned with a loaded record that it refreshed.
C9_Witness ==
    /\ pc[0] = "done" /\ LoadedValid
    /\ obs[0].nAuth = 1 /\ obs[0].upstream = "ok"
    /\ session # Null /\ session.token = AuthToken(0)
    /\ server = "none"
    /\ \A c \in Callers : pc[c] = "idle"

\* C10: when the only callback request of a flow carries token, publicKey
\* and userId and arrived before the 5 minutes were over, then once its
\* handler has finished initialize() has succeeded, this.session has the
\* request's token, publicKey, userId and provider and an expiresAt of
\* createdAt + 7 days, and the session file parses to this.session.
\* (createdAt of the session a request creates is the time it arrived.)
C10_CallbackInTimeSucceeds ==
    [][\A h \in Handlers :
         (/\ hpc[h] = "write" /\ hpc'[h] = "done" /\ nReq = 1
          /\ session # Null /\ session.token = hreq[h].token
          /\ session.createdAt < deadline)
         => /\ pc'[0] = "done"
            /\ res'[0] = Ok("")
            /\ session'.token = hreq[h].token
            /\ session'.publicKey = hreq[h].publicKey
            /\ session'.userId = hreq[h].userId
            /\ session'.authProvider = hreq[h].provider
            /\ session'.expiresAt = session'.createdAt + SEVEN_DAYS
            /\ file'.kind = "object"
            /\ Parse(file') = session']_vars

\* The same with the handler finishing before the timer has fired: the part
\* of C10 the code keeps.
CallbackBeforeTimerCreatesSession ==
    [][\A h \in Handlers :
         (hpc[h] = "write" /\ hpc'[h] = "done" /\ nReq = 1 /\ ~timerFired)
         => /\ Returns(0)
            /\ res'[0] = Ok("")
            /\ session' # Null
            /\ session'.token = hreq[h].token
            /\ session'.publicKey = hreq[h].publicKey
            /\ session'.userId = hreq[h].userId
            /\ session'.authProvider = hreq[h].provider
            /\ session'.expiresAt = session'.createdAt + SEVEN_DAYS
            /\ file'.kind = "object"
            /\ Parse(file') = session']_vars

\* With no MOONGATE_TOKEN and no session file, initialize() has succeeded
\* through a callback of provider google.
CallbackBeforeTimerWitness ==
    /\ ~Truthy(manualToken) /\ boot.loaded = Absent
    /\ pc[0] = "done" /\ res[0] = Ok("") /\ promise = "resolved"
    /\ nReq = 1 /\ hreq[1].provider = "google"
    /\ session # Null /\ session.token = hreq[1].token
    /\ file = Stringify(session)
    /\ \A c \in Callers : pc[c] = "idle"

\* A callback request that lacks token, publicKey or userId: the parameter
\* is absent from the query or empty.
Lacking(r) ==
    \/ r.token \in {JsNull, ""}
    \/ r.publicKey \in {JsNull, ""}
    \/ r.userId \in {JsNull, ""}

\* C11: the step by which the listener receives a callback request lacking
\* token, publicKey or userId closes the listener, makes initialize() fail
\* with OAuthCallbackIncomplete and leaves the session file, its directory
\* and this.session as they are; the handler of such a request never goes
\* on to saveSession().
C11_IncompleteCallbackFails ==
    [][/\ (nReq' = nReq + 1 /\ Lacking(hreq'[nReq + 1]))
          => /\ server = "listening" /\ server' = "closed"
             /\ promise' = "rejected"
             /\ pc'[0] = "done"
             /\ res'[0] = Err("OAuthCallbackIncomplete")
             /\ file' = file /\ dir' = dir /\ fsLog' = fsLog
             /\ session' = session
       /\ \A h \in Handlers :
            (hpc'[h] # "unused" /\ Lacking(hreq'[h])) => hpc'[h] = "done"]_vars

\* A request without publicKey has ended the flow while the session file of
\* an earlier run is still what initialize() read.
C11_Witness ==
    /\ nReq = 1 /\ hreq[1].publicKey = "" /\ hpc[1] = "done"
    /\ server = "closed" /\ promise = "rejected"
    /\ res[0] = Err("OAuthCallbackIncomplete")
    /\ file.kind = "object" /\ file = boot.loaded

\* C12: once the OAuth flow has been rejected (a callback lacking a
\* parameter, or the timeout), initialize() has failed and this.session is
\* null, so that getSession() fails with NotAuthenticated.
C12_FailedFlowLeavesNoSession ==
    (pc[0] = "done" /\ promise = "rejected")
    => /\ res[0].kind = "err"
       /\ session = Null
       /\ getSession = Err("NotAuthenticated")

\* C13: the timer does not fire before the 5 minutes are over; when it fires
\* and the flow is still pending (no callback has settled it) the flow is
\* rejected, the listener is closed and initialize() fails with
\* OAuthTimeout; and, the timer and the pending calls being served, every
\* pending flow is eventually settled and initialize() eventually completes.
C13_TimeoutEndsFlow ==
    /\ [][(~timerFired /\ timerFired')
          => /\ now >= deadline /\ now >= boot.at + OAUTH_TIMEOUT
             /\ server' = "closed"
             /\ promise = "pending"
                => /\ promise' = "rejected"
                   /\ pc'[0] = "done"
                   /\ res'[0] = Err("OAuthTimeout")]_vars
    /\ (promise = "pending") ~> (promise \in {"resolved", "rejected"} /\ server = "closed")
    /\ <>(pc[0] = "done")

\* The flow has timed out without any callback request.
C13_Witness ==
    /\ nReq = 0 /\ timerFired /\ server = "closed"
    /\ promise = "rejected" /\ res[0] = Err("OAuthTimeout")

\* C14: server.close() is called at most once in a flow, whichever of the
\* callback and the timeout comes first.
C14_ListenerClosedOnce == closes <= 1

\* C15: once a first callback request has been received, the arrival of a
\* further one leaves this.session and the outcome of initialize() as they
\* are and starts no saveSession(), and no handler but the first writes the
\* session file.
C15_OneCallbackPerFlow ==
    [][/\ (nReq >= 1 /\ nReq' > nReq)
          => /\ session' = session
             /\ promise' = promise /\ res'[0] = res[0]
             /\ hpc'[nReq + 1] \notin {"mkdir", "write"}
       /\ \A h \in Handlers :
            (h > 1 /\ hpc[h] = "write" /\ hpc'[h] # "write") => file' = file]_vars

\* C16: the dispatcher is connected to its transport, and a tool's handler
\* is invoked, only after initialize() has returned successfully; when
\* initialize() has failed the dispatcher is not connected and no tools/call
\* request is handled.
C16_DispatchAfterInitialize ==
    /\ transport = "connected" => (pc[0] = "done" /\ res[0].kind = "ok")
    /\ \A c \in Callers :
         (tool[c] # "none" \/ pc[c] # "idle" \/ tpc[c] # "idle")
         => (transport = "connected" /\ pc[0] = "done" /\ res[0].kind = "ok")
    /\ (pc[0] = "done" /\ res[0].kind = "err")
       => (transport # "connected" /\ \A c \in Callers : tool[c] = "none")

\* A tool call has been answered with a result after initialize() succeeded
\* through the OAuth flow.
C16_Witness ==
    /\ transport = "connected" /\ promise = "resolved"
    /\ tool[1] \in RegisteredTools /\ reply[1].kind = "result"

\* C17: the CallTool request handler never throws, and a tool invocation
\* that failed (unknown tool name, error from getToken(), error from the
\* wallet API) is answered with an error payload that names the tool and
\* carries a message.
C17_FailuresAreErrorPayloads ==
    \A c \in Callers :
      /\ reply[c].kind # "thrown"
      /\ (tpc[c] = "done" /\ reply[c].kind # "result")
         => /\ reply[c].kind = "error"
            /\ reply[c].tool = tool[c]
            /\ reply[c].error # ""

\* The same for the tools of the registry: the part of C17 the code keeps.
RegisteredToolFailuresAreErrorPayloads ==
    \A c \in Callers :
      (tool[c] \in RegisteredTools /\ tpc[c] = "done" /\ reply[c].kind # "result")
      => /\ reply[c].kind = "error"
         /\ reply[c].tool = tool[c]
         /\ reply[c].error # ""

\* A refresh made by a getToken() call has failed and destroyed the session.
Destroyed ==
    \E c \in Callers : pc[c] = "unlink" \/ res[c] = Err("SessionExpired")

\* C18: once a failed refresh has destroyed the session, this.session stays
\* null, the OAuth flow is not started and initialize() is not run again;
\* a tool invoked from then on has its getToken() fail with NotAuthenticated
\* without an /api2/auth call (getSession() fails alike), and is answered
\* with an error payload naming it.
C18_NoReauthenticationAfterDestroy ==
    [][Destroyed
       => /\ session' = Null
          /\ getSession' = Err("NotAuthenticated")
          /\ server' = server /\ promise' = promise /\ deadline' = deadline
          /\ nReq' = nReq /\ pc'[0] = pc[0] /\ transport' = transport
          /\ \A c \in Callers :
               /\ (tool[c] = "none" /\ tool'[c] \in RegisteredTools)
                  => /\ pc'[c] = "done"
                     /\ res'[c] = Err("NotAuthenticated")
                     /\ obs'[c].nAuth = 0
               /\ (res[c] = Err("NotAuthenticated") /\ reply'[c] # reply[c])
                  => /\ reply'[c].kind = "error"
                     /\ reply'[c].tool = tool[c]
                     /\ reply'[c].error = "NotAuthenticated"]_vars

\* After the first tool call's refresh was rejected, a second tool call
\* has been answered with an error payload.
C18_Witness ==
    /\ res[1] = Err("SessionExpired") /\ obs[1].upstream = "rejected"
    /\ tool[2] \in RegisteredTools /\ res[2] = Err("NotAuthenticated")
    /\ obs[2].nAuth = 0
    /\ reply[2].kind = "error"
    /\ session = Null /\ transport = "connected"

\* C19: overallRisk is LOW when 0 or 1 risk indicators were collected,
\* MODERATE for 2 to 4 and HIGH for 5 and more.
C19_RiskLevelByCount ==
    assessment # NoAssessment
    => assessment.overallRisk =
         (IF assessment.n <= 1 THEN "LOW"
          ELSE IF assessment.n <= 4 THEN "MODERATE" ELSE "HIGH")

\* ---------------------------------------------------------------- send_token
\* The tokens of the portfolio the handler received.
HeldTokens == Normalized(portfolio.tokens)
\* None of tokenMint, tokenName, tokenSymbol is a string with a character
\* other than a blank.
NothingGiven ==
    \A v \in {sargs.tokenMint, sargs.tokenName, sargs.tokenSymbol} :
        ~(v.type = "string" /\ \E i \in 1 .. Len(v.str) : v.str[i] # " ")
\* Token t answers to one of the identifiers given.
Names(t) ==
    \E v \in {Trimmed(sargs.tokenMint), Trimmed(sargs.tokenName), Trimmed(sargs.tokenSymbol)} :
        /\ Given(v)
        /\ \/ byMint(t, v.str)
           \/ bySymbol(t, v.str)
           \/ byName(t, v.str)
NotInPortfolio ==
    /\ portfolio.kind = "tokens"
    /\ \A k \in 1 .. Len(HeldTokens) : ~Names(HeldTokens[k])
\* balance >= amount, for an amount that is a number or converts to one
AtLeast(balance, amount) ==
    ToNumber(amount).type = "number" /\ balance >= ToNumber(amount).num
BalanceSmaller ==
    LET resolved == Match(HeldTokens, Trimmed(sargs.tokenMint), Trimmed(sargs.tokenName),
                          Trimmed(sargs.tokenSymbol))
    IN  /\ portfolio.kind = "tokens"
        /\ resolved # None
        /\ ToNumber(sargs.amount).type = "number"
        /\ resolved[1].balance < ToNumber(sargs.amount).num
TransferGuarded ==
    /\ \A i \in 1 .. Len(sent) :
         /\ portfolio.kind = "tokens"
         /\ \E k \in 1 .. Len(HeldTokens) :
              /\ HeldTokens[k].mint = sent[i].tokenMint
              /\ Names(HeldTokens[k])
              /\ AtLeast(HeldTokens[k].balance, sent[i].amount)
    /\ (spc # "idle" /\ (NothingGiven \/ NotInPortfolio \/ BalanceSmaller))
       => /\ sent = <<>>
          /\ spc = "done" /\ sres.kind = "err"

\* C20: send_token issues the /sending/sendtoken request only after it has
\* resolved the requested token in the portfolio and found a balance >= the
\* requested amount; when no token identifier is given, when the token is
\* not in the portfolio or when the balance is smaller than the amount, the
\* call fails and no transfer request is sent.
C20_TransferOnlyWithSufficientBalance == TransferGuarded

\* For an amount that is a number, as the input schema declares it, the
\* transfer request is guarded as C20 says.
NumericAmountTransferGuarded == sargs.amount.type = "number" => TransferGuarded
NumericAmountWitness ==
    /\ sargs.amount = ArgNumber(5)
    /\ Len(sent) = 1 /\ spc = "done" /\ sres.kind = "ok"
InsufficientWitness ==
    /\ spc = "done" /\ sres = Err("InsufficientBalance") /\ sent = <<>>


\* ------------------------------------------------- refresh and the file system
\* No /api2/auth call of any refresh has been rejected so far.
NoRejection == \A p \in Procs : obs[p].upstream # "rejected"

\* C21: the session is destroyed only when the upstream rejects a refresh:
\* a getToken() call whose /api2/auth call succeeded, with no refresh
\* rejected by then, returns with the session present, also when writing
\* the session file fails.
C21_DestroyedOnlyOnRejection ==
    [][\A c \in Callers :
         (Returns(c) /\ obs'[c].upstream = "ok" /\ NoRejection')
         => /\ session' # Null
            /\ res'[c].kind = "ok"]_vars


\* C22: a session with authProvider = manual is validated against /api2/auth
\* once, by initialize(): no getToken() call issues an /api2/auth call for
\* it, however close to expiresAt the clock is.
C22_ManualValidatedOnce ==
    \A c \in Callers :
        (session # Null /\ session.authProvider = "manual") => pc[c] # "auth"


\* ------------------------------------------------------ the persisted path
\* initialize() is on the persisted-session path, before the OAuth flow.
Loading == pc[0] \in {"lMkdir", "lRead", "auth", "mkdir", "write", "unlink"}
\* The persisted-session path has failed: no file, a text that is not a
\* record, a record that has expired, or a refresh that the upstream rejected.
LoadFailed ==
    \/ boot.loaded.kind \in {"absent", "corrupt", "null"}
    \/ LoadedExpired
    \/ obs[0].upstream = "rejected"

\* C23: without MOONGATE_TOKEN, a failure of the persisted-session path
\* (file missing, text that is no record, record expired, refresh rejected
\* while loading) does not make initialize() fail: initialize() leaves that
\* path either successfully or by starting the OAuth flow, and after a
\* failure it starts the OAuth flow.
C23_LoadFailureFallsThrough ==
    [][(Loading /\ ~Loading')
       => /\ \/ pc'[0] = "done" /\ res'[0].kind = "ok" /\ ~LoadFailed'
             \/ pc'[0] = "oauth" /\ server' = "listening" /\ promise' = "pending"
          /\ LoadFailed' => pc'[0] = "oauth"]_vars

\* The refresh of the loaded record was rejected, and initialize() waits
\* for the OAuth callback.
C23_Witness ==
    /\ boot.path = "persisted" /\ LoadedValid /\ obs[0].upstream = "rejected"
    /\ pc[0] = "oauth" /\ server = "listening" /\ promise = "pending"


\* C24: whenever a session exists in memory its token is a non-empty
\* string, whatever the upstream answers, the session file holds and the
\* callback request carries.
C24_TokenNonEmpty == session # Null => Truthy(session.token)


\* ------------------------------------------------------- the session's fields
\* The step creates the session from a validated MOONGATE_TOKEN, from an
\* accepted callback request; the step applies a successful refresh.
ManualCreated ==
    pc[0] \in {"mAuth", "mWallet"} /\ pc'[0] = "done" /\ res'[0].kind = "ok"
CallbackCreated == nReq' = nReq + 1 /\ hpc'[nReq'] = "mkdir"
RefreshApplied == \E p \in Procs : pc[p] = "auth" /\ pc'[p] = "mkdir"

\* C25: whenever a session is created (static-token path, OAuth callback)
\* or refreshed, its expiresAt is its createdAt + 7 days right after.
C25_ExpiryIsCreationPlusSevenDays ==
    [][(ManualCreated \/ CallbackCreated \/ RefreshApplied)
       => session'.expiresAt = session'.createdAt + SEVEN_DAYS]_vars

\* C25, amended: a created session has createdAt = the time of creation and
\* expiresAt = createdAt + 7 days; a refresh sets expiresAt to the time of
\* the refresh + 7 days and leaves createdAt as it was.
C25_ExpiryIsSevenDaysFromWrite ==
    [][/\ (ManualCreated \/ CallbackCreated)
          => /\ session'.createdAt = now
             /\ session'.expiresAt = session'.createdAt + SEVEN_DAYS
       /\ RefreshApplied
          => /\ session'.expiresAt = now + SEVEN_DAYS
             /\ session'.createdAt = session.createdAt]_vars

\* A session created by a callback has been refreshed later: its expiry is
\* 7 days after the refresh, more than 7 days after its creation.
C25_Witness ==
    /\ session # Null /\ session.publicKey = "pkC"
    /\ \E c \in Callers : obs[c].upstream = "ok" /\ obs[c].tAuth > session.createdAt
    /\ session.expiresAt > session.createdAt + SEVEN_DAYS


\* The values of SessionData.authProvider.
AuthProviders == {"google", "apple", "manual"}

\* C26: every session held in memory or written to the session file has
\* authProvider in {google, apple, manual}, whatever callback request the
\* listener receives.
C26_AuthProviderInEnum ==
    /\ session # Null => session.authProvider \in AuthProviders
    /\ file.kind = "object" => Member(file.body, "authProvider") \in AuthProviders


\* C27: an existing session is changed in place only by the refresh, and
\* the refresh changes only token and expiresAt: whatever getToken() and
\* getSession() calls are made, publicKey, userId, authProvider and
\* createdAt stay as they were when the session was created or loaded.
C27_OnlyRefreshMutates ==
    [][/\ (/\ session # Null /\ session' # Null /\ session' # session
           /\ ~ManualCreated /\ ~CallbackCreated /\ pc[0] # "lRead")
          => RefreshApplied
       /\ (RefreshApplied \/ \E c \in Callers : pc'[c] # pc[c])
          => (session # Null /\ session' # Null
              => /\ session'.publicKey = session.publicKey
                 /\ session'.userId = session.userId
                 /\ session'.authProvider = session.authProvider
                 /\ session'.createdAt = session.createdAt)]_vars

\* A getToken() call has refreshed the session some time after it was
\* created and has returned its new token.
C27_Witness ==
    \E c \in Callers :
        /\ pc[c] = "done" /\ obs[c].upstream = "ok"
        /\ session # Null /\ res[c] = Ok(session.token)
        /\ session.token = AuthToken(c)
        /\ session.createdAt < obs[c].tAuth
        /\ session.expiresAt = obs[c].tAuth + SEVEN_DAYS


\* C28: ensureSessionDir() returns without error when the directory exists,
\* and when the directory cannot be created the failure reaches the caller,
\* which fails instead of going on: after an mkdir that left the directory
\* missing, neither the load reads the file nor a save writes it.
C28_MkdirFailurePropagates ==
    [][/\ (pc[0] = "lMkdir" /\ ~dir') => pc'[0] # "lRead"
       /\ \A p \in Procs : (pc[p] = "mkdir" /\ ~dir') => pc'[p] # "write"
       /\ \A h \in Handlers : (hpc[h] = "mkdir" /\ ~dir') => hpc'[h] # "write"]_vars


\* ------------------------------------------------------- overlapping calls
\* No getToken() call is in flight.
Quiet == \A c \in Callers : ~InFlight(c)
\* The session file mirrors the session in memory.
Mirrors ==
    \/ session = Null /\ file = Absent
    \/ session # Null /\ file.kind = "object" /\ Parse(file) = session

\* C29: after initialize() has succeeded through the persisted or the OAuth
\* path, whenever no getToken() call is in flight the session file mirrors
\* the session in memory, for every interleaving of overlapping getToken()
\* calls.
C29_FileMirrorsSession ==
    (pc[0] = "done" /\ res[0].kind = "ok" /\ boot.path = "persisted" /\ Quiet) => Mirrors


\* C30: under any interleaving of overlapping getToken() calls, a call
\* returns the token of the session that exists when it returns, or fails
\* with NotAuthenticated or SessionExpired: it fails with no other error and
\* does not succeed once a concurrent call has destroyed the session.
C30_CallsEndCleanly ==
    [][\A c \in Callers :
         Returns(c)
         => \/ /\ res'[c].kind = "ok"
               /\ session' # Null
               /\ res'[c].val = session'.token
            \/ res'[c] \in {Err("NotAuthenticated"), Err("SessionExpired")}]_vars

====
